---- MODULE Spec2Model ----
(***************************************************************************)
(* Model of src/src/main.c: an N-body gravity simulation advanced by a     *)
(* fixed-step accumulator loop, with a mouse gesture that spawns a body    *)
(* and previews its path.                                                  *)
(*                                                                         *)
(* A C float is modelled as an exact value: a rational n/d in lowest terms *)
(* with d > 0, or a non-finite value with d = 0 (n = 1: +inf, n = -1:      *)
(* -inf, n = 0: NaN).  Rounding is not modelled: an operation whose exact  *)
(* result has no such n/d with n and d in 32 bits (a product that          *)
(* overflows, the square root of a non-square) yields Unrepresentable,     *)
(* which every operation propagates, and the actions are not taken where   *)
(* they would store it.  This bounds the physics to the few steps whose    *)
(* values fit, from bodies placed where their distances are rational.      *)
(***************************************************************************)
EXTENDS Integers, Sequences, FiniteSets, TLC

(***************************************************************************)
(* float                                                                   *)
(***************************************************************************)
Abs(i) == IF i < 0 THEN -i ELSE i

Sgn(i) == IF i < 0 THEN -1 ELSE IF i > 0 THEN 1 ELSE 0

RECURSIVE GCD(_, _)
GCD(a, b) == IF b = 0 THEN a ELSE GCD(b, a % b)

Norm(n, d) ==
    IF d = 0 THEN [n |-> Sgn(n), d |-> 0]
    ELSE LET g == GCD(Abs(n), Abs(d))
             s == Sgn(d)
         IN [n |-> s * (n \div g), d |-> s * (d \div g)]

Q(n, d) == Norm(n, d)

Zero == [n |-> 0, d |-> 1]

One == [n |-> 1, d |-> 1]

NaN == [n |-> 0, d |-> 0]

Unrepresentable == [n |-> 0, d |-> -1]

IsUnrepresentable(a) == a.d < 0

IsNaN(a) == a.d = 0 /\ a.n = 0

IsFinite(a) == a.d > 0

\* x * y fits a 32-bit integer
MulFits(x, y) == x = 0 \/ y = 0 \/ Abs(x) <= 2147483647 \div Abs(y)

\* x + y fits a 32-bit integer
AddFits(x, y) ==
    IF x >= 0 THEN y <= 2147483647 - x ELSE y >= (-2147483647) - x

FNeg(a) == IF IsUnrepresentable(a) THEN a ELSE [n |-> -a.n, d |-> a.d]

\* a + b
FAdd(a, b) ==
    IF IsUnrepresentable(a) \/ IsUnrepresentable(b) THEN Unrepresentable
    ELSE IF IsNaN(a) \/ IsNaN(b) THEN NaN
    ELSE IF a.d = 0 /\ b.d = 0 THEN (IF a.n = b.n THEN a ELSE NaN)
    ELSE IF a.d = 0 THEN a
    ELSE IF b.d = 0 THEN b
    ELSE LET g == GCD(a.d, b.d)
             ad == a.d \div g
             bd == b.d \div g
         IN IF MulFits(a.n, bd) /\ MulFits(b.n, ad) /\ MulFits(ad, b.d)
               /\ AddFits(a.n * bd, b.n * ad)
            THEN Norm(a.n * bd + b.n * ad, ad * b.d)
            ELSE Unrepresentable

\* a - b
FSub(a, b) == FAdd(a, FNeg(b))

\* a * b, cancelling common factors before multiplying
FMul(a, b) ==
    IF IsUnrepresentable(a) \/ IsUnrepresentable(b) THEN Unrepresentable
    ELSE IF a.d = 0 \/ b.d = 0 THEN Norm(Sgn(a.n) * Sgn(b.n), 0)
    ELSE LET g1 == GCD(Abs(a.n), b.d)
             g2 == GCD(Abs(b.n), a.d)
             an == a.n \div g1
             bn == b.n \div g2
             ad == a.d \div g2
             bd == b.d \div g1
         IN IF MulFits(an, bn) /\ MulFits(ad, bd)
            THEN [n |-> an * bn, d |-> ad * bd]
            ELSE Unrepresentable

\* 1 / a
FInv(a) ==
    IF IsUnrepresentable(a) THEN a
    ELSE IF a.d = 0 THEN (IF a.n = 0 THEN NaN ELSE Zero)
    ELSE IF a.n = 0 THEN [n |-> 1, d |-> 0]
    ELSE [n |-> Sgn(a.n) * a.d, d |-> Abs(a.n)]

\* a / b
FDiv(a, b) ==
    IF IsUnrepresentable(a) \/ IsUnrepresentable(b) THEN Unrepresentable
    ELSE IF a.d = 0 /\ b.d = 0 THEN NaN
    ELSE IF a.n = 0 /\ b.n = 0 THEN NaN
    ELSE FMul(a, FInv(b))

\* the sign of n1/d1 - n2/d2 for n1, n2 >= 0 and d1, d2 > 0, by continued fractions
\* (no product is formed)
RECURSIVE CmpPos(_, _, _, _)
CmpPos(n1, d1, n2, d2) ==
    LET q1 == n1 \div d1
        q2 == n2 \div d2
        r1 == n1 % d1
        r2 == n2 % d2
    IN IF q1 # q2 THEN Sgn(q1 - q2)
       ELSE IF r1 = 0 \/ r2 = 0 THEN Sgn(r1 - r2)
       ELSE CmpPos(d2, r2, d1, r1)

\* the sign of a - b, for a and b neither NaN nor Unrepresentable
Cmp(a, b) ==
    IF a.d = 0 \/ b.d = 0
    THEN Sgn((IF a.d = 0 THEN a.n ELSE 0) - (IF b.d = 0 THEN b.n ELSE 0))
    ELSE IF Sgn(a.n) # Sgn(b.n) THEN Sgn(Sgn(a.n) - Sgn(b.n))
    ELSE IF a.n >= 0 THEN CmpPos(a.n, a.d, b.n, b.d)
    ELSE CmpPos(-b.n, b.d, -a.n, a.d)

Ordered(a, b) == ~IsNaN(a) /\ ~IsNaN(b) /\ ~IsUnrepresentable(a) /\ ~IsUnrepresentable(b)

\* a >= b (false when either is NaN)
FGe(a, b) == Ordered(a, b) /\ Cmp(a, b) >= 0

\* a > b
FGt(a, b) == Ordered(a, b) /\ Cmp(a, b) > 0

\* a < b
FLt(a, b) == FGt(b, a)

\* fmax, fmaxf: the larger argument; a NaN argument is ignored
fmax(a, b) ==
    IF IsUnrepresentable(a) \/ IsUnrepresentable(b) THEN Unrepresentable
    ELSE IF IsNaN(a) THEN b
    ELSE IF IsNaN(b) THEN a
    ELSE IF FGe(a, b) THEN a ELSE b

\* the largest s in lo..hi with s*s <= n (hi at most 46340, whose square is the
\* largest that fits a 32-bit integer)
RECURSIVE ISqrt(_, _, _)
ISqrt(n, lo, hi) ==
    IF lo >= hi THEN lo
    ELSE LET mid == (lo + hi + 1) \div 2
         IN IF mid * mid <= n THEN ISqrt(n, mid, hi) ELSE ISqrt(n, lo, mid - 1)

\* sqrt: the square root of the square of a rational
sqrt(a) ==
    IF IsUnrepresentable(a) THEN a
    ELSE IF a.d = 0 THEN (IF a.n = 1 THEN a ELSE NaN)
    ELSE IF a.n < 0 THEN NaN
    ELSE LET sn == ISqrt(a.n, 0, 46340)
             sd == ISqrt(a.d, 0, 46340)
         IN IF sn * sn = a.n /\ sd * sd = a.d THEN [n |-> sn, d |-> sd]
            ELSE Unrepresentable

(***************************************************************************)
(* raymath Vector2                                                         *)
(***************************************************************************)
Vec(x, y) == [x |-> x, y |-> y]

Vector2Zero == Vec(Zero, Zero)

Vector2Add(v1, v2) == Vec(FAdd(v1.x, v2.x), FAdd(v1.y, v2.y))

Vector2Subtract(v1, v2) == Vec(FSub(v1.x, v2.x), FSub(v1.y, v2.y))

Vector2Scale(v, s) == Vec(FMul(v.x, s), FMul(v.y, s))

Vector2LengthSqr(v) == FAdd(FMul(v.x, v.x), FMul(v.y, v.y))

Vector2Negate(v) == Vec(FNeg(v.x), FNeg(v.y))

(***************************************************************************)
(* Program constants                                                       *)
(***************************************************************************)
G == 30

SIMULATION_STEPS == 120

\* PATH_POINTS is 10000 in the source; the preview loop is cut to this many points
PATH_POINTS == 2

sub_dt == FDiv(One, Q(SIMULATION_STEPS, 1))

Half == Q(1, 2)

\* the softening constant 1e-6f of compute_gravitational_force
Softening == Q(1, 1000000)

(***************************************************************************)
(* CelestialBody                                                           *)
(***************************************************************************)
create_body(position, velocity, density, radius, color) ==
    [position |-> position,
     prev_position |-> position,
     force |-> Vector2Zero,
     prev_force |-> Vector2Zero,
     velocity |-> velocity,
     radius |-> radius,
     inv_mass |-> FDiv(One, FMul(FMul(density, radius), radius)),
     color |-> color]

(***************************************************************************)
(* Memory: the objects a CelestialBody* can point to.  bodies is the       *)
(* vector, spawned_body the static candidate, b the local copy of          *)
(* spawn_body's preview loop; calls counts the evaluations of              *)
(* compute_gravitational_force.                                            *)
(***************************************************************************)
BodyAt(i) == [at |-> "bodies", i |-> i]

LocalB == [at |-> "b", i |-> 0]

SpawnedBody == [at |-> "spawned_body", i |-> 0]

Load(h, p) ==
    IF p.at = "bodies" THEN h.bodies[p.i]
    ELSE IF p.at = "b" THEN h.b
    ELSE h.spawned_body

Store(h, p, v) ==
    IF p.at = "bodies" THEN [h EXCEPT !.bodies[p.i] = v]
    ELSE IF p.at = "b" THEN [h EXCEPT !.b = v]
    ELSE [h EXCEPT !.spawned_body = v]

integrate_pos(h, p, dt) ==
    LET b == Load(h, p)
    IN Store(h, p,
             [b EXCEPT !.position =
                 Vector2Add(Vector2Add(b.position, Vector2Scale(b.velocity, dt)),
                            Vector2Scale(b.prev_force,
                                         FMul(FMul(FMul(dt, dt), b.inv_mass), Half)))])

integrate_vel(h, p, dt) ==
    LET b == Load(h, p)
    IN Store(h, p,
             [b EXCEPT !.velocity =
                 Vector2Add(b.velocity,
                            Vector2Scale(Vector2Add(b.prev_force, b.force),
                                         FMul(FMul(dt, Half), b.inv_mass)))])

\* variant: m2 read as the inverse mass, without the 1.0f / of line 66
compute_gravitational_force_m2_not_inverted(b1, b2) ==
    LET r0 == Vector2Subtract(b2.position, b1.position)
        r2 == fmax(Vector2LengthSqr(r0), Softening)
        r == Vector2Scale(r0, FDiv(One, sqrt(r2)))
        m1 == FDiv(One, b1.inv_mass)
        m2 == b2.inv_mass
    IN Vector2Scale(r, FDiv(FMul(Q(G, 1), FMul(m1, m2)), r2))

compute_gravitational_force(b1, b2) ==
    LET r0 == Vector2Subtract(b2.position, b1.position)
        r2 == fmax(Vector2LengthSqr(r0), Softening)
        r == Vector2Scale(r0, FDiv(One, sqrt(r2)))
        m1 == FDiv(One, b1.inv_mass)
        m2 == FDiv(One, b2.inv_mass)
    IN Vector2Scale(r, FDiv(FMul(Q(G, 1), FMul(m1, m2)), r2))

\* variant: the force is also applied, negated, to the other body o
apply_force_from_both(h, p, k) ==
    IF p # BodyAt(k)
    THEN LET b == Load(h, p)
             o == Load(h, BodyAt(k))
             f == compute_gravitational_force(b, o)
             h1 == Store(h, p, [b EXCEPT !.force = Vector2Add(b.force, f)])
         IN [Store(h1, BodyAt(k), [o EXCEPT !.force = Vector2Subtract(o.force, f)])
                EXCEPT !.calls = h.calls + 1]
    ELSE h

\* variant: a body takes the force of the bodies after it in the vector only
apply_force_from_later_only(h, p, k) ==
    IF p # BodyAt(k) /\ (p.at # "bodies" \/ p.i < k)
    THEN LET b == Load(h, p)
             f == compute_gravitational_force(b, Load(h, BodyAt(k)))
         IN [Store(h, p, [b EXCEPT !.force = Vector2Add(b.force, f)])
                EXCEPT !.calls = h.calls + 1]
    ELSE h

\* the body of apply_forces' vec_foreach for the element o = &bodies[k]
apply_force_from(h, p, k) ==
    IF p # BodyAt(k)
    THEN LET b == Load(h, p)
             f == compute_gravitational_force(b, Load(h, BodyAt(k)))
         IN [Store(h, p, [b EXCEPT !.force = Vector2Add(b.force, f)])
                EXCEPT !.calls = h.calls + 1]
    ELSE h

RECURSIVE apply_forces_loop(_, _, _)
apply_forces_loop(h, p, k) ==
    IF k > Len(h.bodies) THEN h
    ELSE apply_forces_loop(apply_force_from(h, p, k), p, k + 1)

apply_forces(h, p, dt) == apply_forces_loop(h, p, 1)

\* update's first loop: "Reset forces"
RECURSIVE reset_loop(_, _)
reset_loop(h, k) ==
    IF k > Len(h.bodies) THEN h
    ELSE LET b == h.bodies[k]
         IN reset_loop(Store(h, BodyAt(k),
                             [b EXCEPT !.prev_position = b.position,
                                       !.prev_force = b.force,
                                       !.force = Vector2Zero]), k + 1)

RECURSIVE integrate_pos_loop(_, _, _)
integrate_pos_loop(h, k, dt) ==
    IF k > Len(h.bodies) THEN h
    ELSE integrate_pos_loop(integrate_pos(h, BodyAt(k), dt), k + 1, dt)

RECURSIVE apply_forces_all(_, _, _)
apply_forces_all(h, k, dt) ==
    IF k > Len(h.bodies) THEN h
    ELSE apply_forces_all(apply_forces(h, BodyAt(k), dt), k + 1, dt)

RECURSIVE integrate_vel_loop(_, _, _)
integrate_vel_loop(h, k, dt) ==
    IF k > Len(h.bodies) THEN h
    ELSE integrate_vel_loop(integrate_vel(h, BodyAt(k), dt), k + 1, dt)

\* variant: one loop that moves a body, accumulates its force and updates its
\* velocity before going on to the next body
RECURSIVE per_body_loop(_, _, _)
per_body_loop(h, k, dt) ==
    IF k > Len(h.bodies) THEN h
    ELSE per_body_loop(
             integrate_vel(apply_forces(integrate_pos(h, BodyAt(k), dt), BodyAt(k), dt),
                           BodyAt(k), dt),
             k + 1, dt)

update_body_by_body(h, dt) == per_body_loop(reset_loop(h, 1), 1, dt)

update(h, dt) ==
    integrate_vel_loop(apply_forces_all(integrate_pos_loop(reset_loop(h, 1), 1, dt), 1, dt), 1, dt)

(***************************************************************************)
(* The frame loop of main (lines 201-217)                                  *)
(***************************************************************************)
\* variant: no test of dt
frame_advances_always(d) == TRUE

\* if(dt != 0)
frame_advances(d) == d # Zero

\* variant: while(acc > sub_dt)
loop_condition_strict(a) == FGt(a, sub_dt)

\* while(acc >= sub_dt)
loop_condition(a) == FGe(a, sub_dt)

\* variant: the remainder is dropped, acc = 0
acc_after_step_reset(a) == Zero

\* acc -= sub_dt
acc_after_step(a) == FSub(a, sub_dt)

\* alpha = acc / sub_dt
interpolation(a) == FDiv(a, sub_dt)

(***************************************************************************)
(* raylib's mouse button: the state polled for the previous frame and the  *)
(* one polled for this frame                                               *)
(***************************************************************************)
IsMouseButtonPressed(prev, cur) == prev = 0 /\ cur = 1

IsMouseButtonReleased(prev, cur) == prev = 1 /\ cur = 0

IsMouseButtonDown(prev, cur) == cur = 1

\* variant: the element is put in front
vec_push_front(v, x) == <<x>> \o v

vec_push_back(v, x) == Append(v, x)

(***************************************************************************)
(* spawn_body.  g holds the globals (and, in g.b, the preview loop's       *)
(* local), in the frame's inputs: the button states, GetMousePosition(),   *)
(* the two GetRandomUniform() draws and the colour drawn.                  *)
(***************************************************************************)
\* variant: no lower clamp of the density
spawn_density_unclamped(u) == FMul(u, Q(20, 1))

spawn_density(u) == fmax(FMul(u, Q(20, 1)), One)

spawn_radius(u) == fmax(FMul(u, Q(60, 1)), Q(20, 1))

\* lines 105-118
spawn_press(g, in) ==
    IF IsMouseButtonPressed(in.prev, in.cur)
    THEN LET pos == in.mouse
             vel == Vector2Subtract(in.mouse, pos)
         IN [g EXCEPT !.show_spawn_path = TRUE,
                      !.mouse_pressed_pos = pos,
                      !.spawned_body =
                          create_body(pos, vel, spawn_density(in.u_density),
                                      spawn_radius(in.u_radius), in.color)]
    ELSE g

\* lines 120-124
spawn_release(g, in) ==
    IF IsMouseButtonReleased(in.prev, in.cur)
    THEN LET s == [g.spawned_body EXCEPT
                      !.velocity = Vector2Subtract(in.mouse, g.mouse_pressed_pos)]
         IN [g EXCEPT !.show_spawn_path = FALSE,
                      !.spawned_body = s,
                      !.bodies = vec_push_back(g.bodies, s)]
    ELSE g

\* variant: the preview loop advances spawned_body itself
PreviewInPlace == SpawnedBody

\* the object the preview loop advances: the local b of line 128
PreviewBody == LocalB

\* one iteration of the loop of lines 131-138, step counted from 0
RECURSIVE spawn_path_loop(_, _)
spawn_path_loop(g, step) ==
    IF step >= PATH_POINTS THEN g
    ELSE LET b == Load(g, PreviewBody)
             g1 == Store(g, PreviewBody,
                         [b EXCEPT !.prev_force = b.force, !.force = Vector2Zero])
             g2 == integrate_pos(g1, PreviewBody, sub_dt)
             g3 == apply_forces(g2, PreviewBody, sub_dt)
             g4 == integrate_vel(g3, PreviewBody, sub_dt)
         IN spawn_path_loop(
                [g4 EXCEPT !.spawn_path[step + 1] = Load(g4, PreviewBody).position],
                step + 1)

\* lines 126-139
spawn_preview(g, in) ==
    IF IsMouseButtonDown(in.prev, in.cur)
    THEN LET g1 == Store(g, PreviewBody, g.spawned_body)
             g2 == Store(g1, PreviewBody,
                         [Load(g1, PreviewBody) EXCEPT
                             !.velocity = Vector2Subtract(in.mouse, g.mouse_pressed_pos)])
         IN spawn_path_loop(g2, 0)
    ELSE g

spawn_body(g, in) == spawn_preview(spawn_release(spawn_press(g, in), in), in)

(***************************************************************************)
(* Bounds and inputs                                                       *)
(***************************************************************************)
\* frames run
MaxFrames == 3

\* GetFrameTime()
FrameTimes == {Zero, Q(1, 240), Q(1, 120), Q(1, 60)}

\* GetMousePosition()
MousePositions == {Vec(Q(1, 1), Zero), Vec(Q(121, 1), Zero)}

\* GetRandomUniform()
Uniforms == {Zero, Q(3, 50)}

\* the Color of the three GetRandomValue(0, 255) draws
Colors == {[r |-> 255, g |-> 0, b |-> 0, a |-> 255]}

\* the densities and velocities given to the bodies main creates
InitialDensities == {Q(6, 5), Q(24, 5)}

InitialVelocities == {Vector2Zero, Vec(Q(120, 1), Zero)}

InitialColor == [r |-> 255, g |-> 161, b |-> 0, a |-> 255]

\* the positions given to the bodies main creates: three on a line, or the
\* corners of a 3-4-5 triangle
InitialLayouts ==
    { <<Vec(Zero, Zero), Vec(Q(2, 1), Zero), Vec(Q(4, 1), Zero)>>,
      <<Vec(Zero, Zero), Vec(Q(3, 1), Zero), Vec(Q(3, 1), Q(4, 1))>> }

\* main, lines 192-199: the bodies pushed before the loop
InitialRegistries ==
    { vec_push_back(vec_push_back(vec_push_back(<<>>,
          create_body(at[1], Vector2Zero, d1, Q(20, 1), InitialColor)),
          create_body(at[2], v2, d2, Q(20, 1), InitialColor)),
          create_body(at[3], Vector2Zero, d1, Q(20, 1), InitialColor))
        : at \in InitialLayouts, d1 \in InitialDensities, d2 \in InitialDensities,
          v2 \in InitialVelocities }

(***************************************************************************)
(* State                                                                   *)
(***************************************************************************)
VARIABLES bodies, mouse_pressed_pos, spawned_body, spawn_path, show_spawn_path,
          acc, dt, alpha, pc, button, mouse, frames, steps, elapsed, calls

vars == <<bodies, mouse_pressed_pos, spawned_body, spawn_path, show_spawn_path,
          acc, dt, alpha, pc, button, mouse, frames, steps, elapsed, calls>>

\* a zero-initialised static CelestialBody
ZeroBody ==
    [position |-> Vector2Zero, prev_position |-> Vector2Zero, force |-> Vector2Zero,
     prev_force |-> Vector2Zero, velocity |-> Vector2Zero, radius |-> Zero,
     inv_mass |-> Zero, color |-> [r |-> 0, g |-> 0, b |-> 0, a |-> 0]]

Globals ==
    [bodies |-> bodies, mouse_pressed_pos |-> mouse_pressed_pos,
     spawned_body |-> spawned_body, spawn_path |-> spawn_path,
     show_spawn_path |-> show_spawn_path, b |-> ZeroBody, calls |-> calls]

VecOK(v) == ~IsUnrepresentable(v.x) /\ ~IsUnrepresentable(v.y)

BodyOK(b) ==
    /\ VecOK(b.position) /\ VecOK(b.prev_position) /\ VecOK(b.force)
    /\ VecOK(b.prev_force) /\ VecOK(b.velocity)
    /\ ~IsUnrepresentable(b.inv_mass) /\ ~IsUnrepresentable(b.radius)

\* every float of g has a value
Representable(g) ==
    /\ \A i \in 1..Len(g.bodies) : BodyOK(g.bodies[i])
    /\ BodyOK(g.spawned_body)
    /\ BodyOK(g.b)
    /\ \A i \in 1..Len(g.spawn_path) : VecOK(g.spawn_path[i])
    /\ VecOK(g.mouse_pressed_pos)

Init ==
    /\ bodies \in InitialRegistries
    /\ mouse_pressed_pos = Vector2Zero
    /\ spawned_body = ZeroBody
    /\ spawn_path = [i \in 1..PATH_POINTS |-> Vector2Zero]
    /\ show_spawn_path = FALSE
    /\ acc = Zero
    /\ dt = Zero
    /\ alpha = Zero
    /\ pc = "frame"
    /\ button = 0
    /\ mouse = Vector2Zero
    /\ frames = 0
    /\ steps = 0
    /\ elapsed = Zero
    /\ calls = 0

\* lines 203-207: float dt = GetFrameTime(); acc += dt; float alpha = 0; if(dt != 0)
Tick(d) ==
    /\ pc = "frame"
    /\ frames < MaxFrames
    /\ dt' = d
    /\ acc' = FAdd(acc, d)
    /\ alpha' = Zero
    /\ pc' = IF frame_advances(d) THEN "while" ELSE "spawn_body"
    /\ frames' = frames + 1
    /\ elapsed' = FAdd(elapsed, d)
    /\ UNCHANGED <<bodies, mouse_pressed_pos, spawned_body, spawn_path, show_spawn_path,
                   button, mouse, steps, calls>>

\* lines 208-211: one iteration of the while loop
Step ==
    /\ pc = "while"
    /\ loop_condition(acc)
    /\ \E g \in {update(Globals, sub_dt)} :
          /\ Representable(g)
          /\ bodies' = g.bodies
          /\ calls' = g.calls
    /\ acc' = acc_after_step(acc)
    /\ steps' = steps + 1
    /\ UNCHANGED <<mouse_pressed_pos, spawned_body, spawn_path, show_spawn_path,
                   dt, alpha, pc, button, mouse, frames, elapsed>>

\* lines 208, 212: the loop ends; alpha = acc / sub_dt
EndLoop ==
    /\ pc = "while"
    /\ ~loop_condition(acc)
    /\ alpha' = interpolation(acc)
    /\ pc' = "spawn_body"
    /\ UNCHANGED <<bodies, mouse_pressed_pos, spawned_body, spawn_path, show_spawn_path,
                   acc, dt, button, mouse, frames, steps, elapsed, calls>>

\* lines 215-216: spawn_body(); draw(alpha), which changes nothing.  The random
\* draws are made on a press only.
SpawnBody(in) ==
    /\ pc = "spawn_body"
    /\ in.prev = button
    /\ IsMouseButtonPressed(in.prev, in.cur) \/ in = [in EXCEPT !.u_density = Zero, !.u_radius = Zero]
    /\ \E g \in {spawn_body(Globals, in)} :
          /\ Representable(g)
          /\ bodies' = g.bodies
          /\ mouse_pressed_pos' = g.mouse_pressed_pos
          /\ spawned_body' = g.spawned_body
          /\ spawn_path' = g.spawn_path
          /\ show_spawn_path' = g.show_spawn_path
          /\ calls' = g.calls
    /\ button' = in.cur
    /\ mouse' = in.mouse
    /\ pc' = "frame"
    /\ UNCHANGED <<acc, dt, alpha, frames, steps, elapsed>>

Inputs ==
    [prev : {0, 1}, cur : {0, 1}, mouse : MousePositions, u_density : Uniforms,
     u_radius : Uniforms, color : Colors]

Next ==
    \/ \E d \in FrameTimes : Tick(d)
    \/ Step
    \/ EndLoop
    \/ \E in \in Inputs : SpawnBody(in)

Spec == Init /\ [][Next]_vars

(***************************************************************************)
(* Properties                                                              *)
(***************************************************************************)
\* a transition that is one iteration of the while loop (one call of update)
IsStep == pc = "while" /\ steps' = steps + 1

\* a transition that is the call of spawn_body
IsSpawn == pc = "spawn_body" /\ pc' = "frame"

Mass(b) == FDiv(One, b.inv_mass)

RECURSIVE MomentumFrom(_, _)
MomentumFrom(bs, k) ==
    IF k > Len(bs) THEN Vector2Zero
    ELSE Vector2Add(Vector2Scale(bs[k].velocity, Mass(bs[k])), MomentumFrom(bs, k + 1))

\* the sum over the bodies of mass times velocity
Momentum(bs) == MomentumFrom(bs, 1)

\* the sum over the bodies j >= k other than i of the force of j on i, at the
\* positions held in bs
RECURSIVE NetForceFrom(_, _, _)
NetForceFrom(bs, i, k) ==
    IF k > Len(bs) THEN Vector2Zero
    ELSE IF k = i THEN NetForceFrom(bs, i, k + 1)
    ELSE Vector2Add(compute_gravitational_force(bs[i], bs[k]), NetForceFrom(bs, i, k + 1))

NetForce(bs, i) == NetForceFrom(bs, i, 1)

\* C1: at every point of a run that started with acc = 0, the number of physics
\* steps executed times the fixed step, plus the accumulator, equals the sum of
\* the frame durations reported so far, however the time was split over frames.
C1_StepsPlusAccumulatorIsElapsed ==
    FAdd(FMul(Q(steps, 1), sub_dt), acc) = elapsed

C1_Witness ==
    pc = "frame" /\ frames >= 3 /\ steps >= 2 /\ acc # Zero /\ dt = Zero

C3_AccumulatorAndAlphaInRange ==
    pc # "while" =>
        /\ FGe(acc, Zero) /\ FLt(acc, sub_dt)
        /\ FGe(alpha, Zero) /\ FLt(alpha, One)

C3_Witness ==
    pc = "spawn_body" /\ steps >= 2 /\ alpha # Zero /\ dt = Q(1, 60)

\* C4: a call of spawn_body made with the button down, which runs the preview
\* loop, leaves the Registry exactly as it was.
C4_PreviewLeavesRegistry ==
    [][(IsSpawn /\ button' = 1) => bodies' = bodies]_vars

C4_Witness ==
    /\ pc = "frame" /\ button = 1 /\ show_spawn_path
    /\ Len(bodies) >= 3
    /\ steps >= 1
    /\ spawn_path[PATH_POINTS] # mouse_pressed_pos
    /\ spawn_path[PATH_POINTS] # Vector2Zero

\* C5 as stated: one physics step over N bodies evaluates the force once per
\* unordered pair, N*(N-1)/2 times.
C5_OneEvaluationPerUnorderedPair ==
    [][IsStep => calls' = calls + (Len(bodies) * (Len(bodies) - 1)) \div 2]_vars

\* C5 amended: one physics step over N bodies evaluates the force once per
\* ordered pair, N*(N-1) times, each body accumulating the forces evaluated for
\* it; the two values evaluated for a pair are exact negations of each other.
C5_OneEvaluationPerOrderedPair ==
    [][IsStep =>
        /\ calls' = calls + Len(bodies) * (Len(bodies) - 1)
        /\ \A i \in 1..Len(bodies') :
              /\ bodies'[i].force = NetForce(bodies', i)
              /\ \A j \in 1..Len(bodies') :
                    compute_gravitational_force(bodies'[i], bodies'[j])
                        = Vector2Negate(compute_gravitational_force(bodies'[j], bodies'[i]))
      ]_vars

C5_Witness ==
    /\ steps >= 1 /\ Len(bodies) >= 3 /\ calls >= 6
    /\ \E i \in 1..Len(bodies) : bodies[i].force # Vector2Zero

\* C6: a physics step leaves the sum over the bodies of mass times velocity as
\* it was, so any number of steps on a Registry to which nothing is added does.
C6_MomentumConserved ==
    [][IsStep =>
        /\ VecOK(Momentum(bodies'))
        /\ Momentum(bodies') = Momentum(bodies)]_vars

C6_Witness ==
    /\ steps >= 2
    /\ \E i, j \in 1..Len(bodies) : bodies[i].inv_mass # bodies[j].inv_mass
    /\ \E i \in 1..Len(bodies) :
          /\ bodies[i].prev_force # Vector2Zero
          /\ bodies[i].force # bodies[i].prev_force
          /\ bodies[i].velocity # Vector2Zero

\* C7: the Registry only grows at its end: a call of spawn_body that sees the
\* button released appends exactly one body and leaves the others as they were,
\* no other transition changes the count, and a body keeps its index.
C7_RegistryAppendOnly ==
    [][LET released == IsSpawn /\ button = 1 /\ button' = 0
       IN /\ Len(bodies') = Len(bodies) + (IF released THEN 1 ELSE 0)
          /\ released => SubSeq(bodies', 1, Len(bodies)) = bodies
          /\ \A i \in 1..Len(bodies) :
                /\ bodies'[i].color = bodies[i].color
                /\ bodies'[i].radius = bodies[i].radius
                /\ bodies'[i].inv_mass = bodies[i].inv_mass
      ]_vars

C7_Witness ==
    /\ Len(bodies) = 4 /\ button = 0 /\ pc = "frame"
    /\ bodies[4].color # bodies[1].color

\* C8: a frame tick of duration zero runs no physics step: it goes straight to
\* spawn_body with the Registry and the accumulator as they were and alpha = 0.
C8_ZeroFrameRunsNoStep ==
    [][(pc = "frame" /\ pc' # "frame" /\ dt' = Zero) =>
        /\ pc' = "spawn_body"
        /\ alpha' = Zero
        /\ acc' = acc
        /\ bodies' = bodies
        /\ steps' = steps]_vars

C8_Witness ==
    pc = "spawn_body" /\ dt = Zero /\ acc # Zero /\ alpha = Zero

\* C9: in a physics step every body's new position is computed from the state
\* before the step; every body's new force is the sum of the pairwise forces at
\* the new positions of all bodies; and every body's new velocity adds to the old
\* one the force carried over from the step before plus the new force.
C9_PhasesInOrder ==
    [][IsStep =>
        \A i \in 1..Len(bodies) :
            LET old == bodies[i]
                new == bodies'[i]
            IN /\ new.prev_position = old.position
               /\ new.prev_force = old.force
               /\ new.position =
                     Vector2Add(Vector2Add(old.position, Vector2Scale(old.velocity, sub_dt)),
                                Vector2Scale(old.force,
                                             FMul(FMul(FMul(sub_dt, sub_dt), old.inv_mass), Half)))
               /\ new.force = NetForce(bodies', i)
               /\ new.velocity =
                     Vector2Add(old.velocity,
                                Vector2Scale(Vector2Add(old.force, new.force),
                                             FMul(FMul(sub_dt, Half), old.inv_mass)))
      ]_vars

C9_Witness ==
    /\ steps >= 2 /\ Len(bodies) >= 3
    /\ \E i \in 1..Len(bodies) :
          /\ bodies[i].prev_force # Vector2Zero
          /\ bodies[i].force # bodies[i].prev_force
          /\ bodies[i].position # bodies[i].prev_position

\* C10: the body appended on release is the candidate built at press time with
\* only its velocity replaced: it stands at the press position, its velocity is
\* the release position minus the press position, its two forces are zero; and
\* while the button is down the candidate stays as built, whatever the preview
\* loop does.
C10_CommittedBodyIsCandidate ==
    [][IsSpawn =>
        /\ button' = 1 =>
              /\ spawned_body'.position = mouse_pressed_pos'
              /\ spawned_body'.prev_position = mouse_pressed_pos'
              /\ spawned_body'.velocity = Vector2Zero
              /\ spawned_body'.force = Vector2Zero
              /\ spawned_body'.prev_force = Vector2Zero
        /\ (button = 1 /\ button' = 1) =>
              /\ spawned_body' = spawned_body
              /\ mouse_pressed_pos' = mouse_pressed_pos
        /\ (button = 1 /\ button' = 0) =>
              bodies'[Len(bodies')] =
                  [spawned_body EXCEPT
                      !.velocity = Vector2Subtract(mouse', mouse_pressed_pos)]
      ]_vars

C10_Witness ==
    /\ pc = "frame" /\ button = 0 /\ frames >= 3
    /\ Len(bodies) = 4
    /\ bodies[4].velocity # Vector2Zero
    /\ bodies[4].position = mouse_pressed_pos
    /\ spawn_path[PATH_POINTS] # mouse_pressed_pos
====
